---- MODULE Spec2Model ----
(***************************************************************************)
(* Model of crates/notedeck_columns/src/ui/timeline.rs: the per-frame      *)
(* render of a timeline column (timeline_ui), its tab selector (tabs_ui)   *)
(* and the row callback of TimelineTabView::show.                          *)
(*                                                                         *)
(* Indices are 0-based as in the source; a Rust slice s is a TLA+ sequence *)
(* and s[i] is written At(s, i).  A panic (expect on Err, slice index out  *)
(* of bounds) is the terminal control state "panic".                       *)
(***************************************************************************)
EXTENDS Integers, Sequences, FiniteSets

\* ---------------------------------------------------------------- bounds
\* most views (tabs) a timeline holds
MaxTabs == 2
\* most notes the last view of a timeline holds
MaxNotes == 3
\* width of the counter of row-callback invocations (it wraps)
CallsModulus == 4

\* usize arithmetic wraps at this modulus (a narrow stand-in for 2^64)
UsizeModulus == 2^16

\* ids of the timelines the caller's columns hold, and the ids a caller asks for
KnownIds == {1, 2}
RequestIds == {1, 2, 3}

VARIABLES
    columns,      \* Columns: timeline id -> [selected_view, views]
    ndb,          \* note keys get_note_by_key resolves
    mutedKeys,    \* note keys is_muted answers true for
    pc,           \* "ready" | "scroll" | "list" | "returned" | "panic"
    panicAt,      \* source place of the panic, "" when none
    timeline_id,  \* argument of the running / last timeline_ui call
    reversed,     \* argument of the running / last timeline_ui call
    click,        \* tab segment clicked in this frame (Option)
    tabsShown,    \* the tab selector was rendered in this frame
    errors,       \* error! lines logged in this frame
    warned,       \* note keys a warn! line was logged for in this frame
    txn,          \* the Transaction the TimelineTabView holds, 0 when none
    openTxns,     \* Transactions open (created and not yet dropped)
    txnOpened,    \* Transactions created in this frame
    txnErr,       \* Transaction::new returned Err in this frame
    rowTxns,      \* Transactions rows were resolved against in this frame
    len,          \* show: self.tab.notes.len() captured at the start
    first,        \* list renderer: first visible display position
    limit,        \* list renderer: end (exclusive) of the visible positions
    cursor,       \* list renderer: current item index
    calls,        \* row-callback invocations in this frame (wrapping counter)
    visited,      \* display positions the callback was invoked for
    inds,         \* logical indices the callback computed
    consumed,     \* sum of the callback's return values
    painted,      \* logical indices whose note content was painted
    hlines,       \* logical indices a separator was drawn under
    yielded,      \* display positions whose NoteView returned an action
    action,       \* show: the local `action`
    ret           \* value timeline_ui returned (Option<NoteAction>)

vars == <<columns, ndb, mutedKeys, pc, panicAt, timeline_id, reversed, click,
          tabsShown, errors, warned, txn, openTxns, txnOpened, txnErr, rowTxns,
          len, first, limit, cursor, calls, visited, inds, consumed, painted,
          hlines, yielded, action, ret>>

\* ------------------------------------------------------------ Rust values
None == [some |-> FALSE, val |-> 0]
Some(v) == [some |-> TRUE, val |-> v]

\* Option::unwrap_or_default on Option<i32>
UnwrapOrDefault(o) == IF o.some THEN o.val ELSE 0

\* slice indexing s[i], 0-based; the caller checks InBounds first
InBounds(s, i) == i >= 0 /\ i < Len(s)
At(s, i) == s[i + 1]

\* usize subtraction, wrapping
USub(a, b) == (a - b + UsizeModulus) % UsizeModulus

Max(a, b) == IF a >= b THEN a ELSE b

SetMax(S) == CHOOSE x \in S : \A y \in S : y <= x

\* ------------------------------------------------------------- data model
\* the key of the note at position pos of the upstream feed
NoteKey(pos) == 100 + pos

\* ViewFilter of the j-th view (0-based): Notes first, then NotesAndReplies
FilterOf(j) == IF j = 0 THEN "Notes" ELSE "NotesAndReplies"

\* a timeline's k views over a feed of n notes: the last view holds all n
\* notes, each earlier view one note fewer
MkNotes(m) == [i \in 1..m |-> [key |-> NoteKey(i - 1), index |-> i - 1]]
MkViews(k, n) ==
    [j \in 1..k |-> [filter |-> FilterOf(j - 1),
                      notes |-> MkNotes(Max(0, n - (k - j)))]]

\* a plausible slip: a missing timeline falls back to some known one
find_timeline_or_any(cols, id) ==
    IF id \in DOMAIN cols THEN Some(id)
    ELSE Some(CHOOSE t \in DOMAIN cols : TRUE)

\* columns.find_timeline_mut(timeline_id): the timeline's id, if it is there
find_timeline_mut(cols, id) ==
    IF id \in DOMAIN cols THEN Some(id) ELSE None

\* Timeline::current_view
CurrentView(timeline) == At(timeline.views, timeline.selected_view)

\* the notes of the view the running frame shows
CurrentNotes == CurrentView(columns[timeline_id]).notes

\* ------------------------------------------------------------ tab selector
\* the label of a tab (match on ViewFilter)
TabLabel(filter) ==
    IF filter = "Notes" THEN "Notes" ELSE "Notes & Replies"

\* the closure tabs_ui hands to Tabs::show, for tab `ind`
TabClosure(views, ind, isSelected) ==
    [label |-> TabLabel(At(views, ind).filter), underlined |-> isSelected]

\* Tabs::new(cols).selected(selected).show(..): one segment per tab; a click
\* on a segment selects it, otherwise the selection handed in is kept.
\* `inner` holds one closure result per tab.
TabsShow(cols, selected, clk, views) ==
    LET sel == IF clk.some THEN clk ELSE Some(selected)
    IN  [selected |-> sel,
         inner |-> [j \in 1..cols |->
                        TabClosure(views, j - 1, sel.val = j - 1)]]

\* a plausible slip in tabs_ui: the clicked segment counted from one
tabs_ui_one_based(selected, views, clk) ==
    LET tab_res == TabsShow(Len(views), selected, clk, views)
        sel == UnwrapOrDefault(tab_res.selected)
    IN  IF ~InBounds(tab_res.inner, sel)
        THEN [panic |-> TRUE, ret |-> 0]
        ELSE [panic |-> FALSE, ret |-> IF clk.some THEN sel + 1 ELSE sel]

\* tabs_ui: [panic, ret]; tab_res.inner()[sel] panics when sel is out of bounds
tabs_ui(selected, views, clk) ==
    LET tab_res == TabsShow(Len(views), selected, clk, views)
        sel == UnwrapOrDefault(tab_res.selected)
    IN  IF ~InBounds(tab_res.inner, sel)
        THEN [panic |-> TRUE, ret |-> 0]
        ELSE [panic |-> FALSE, ret |-> sel]

\* the segments a user can click in a row of k tabs
Clicks(k) == {None} \cup {Some(j) : j \in 0..(k - 1)}

\* ------------------------------------------------------------ row callback
\* a plausible slip in the reversed index: the "- 1" forgotten
IndNoMinusOne(rev, n, start_index) ==
    IF rev THEN USub(n, start_index) ELSE start_index

\* display position -> logical index
Ind(rev, n, start_index) ==
    IF rev THEN USub(USub(n, start_index), 1) ELSE start_index

\* whether len - start_index - 1 underflows in usize
Underflows(n, start_index) == n - start_index - 1 < 0

\* ndb.get_note_by_key(txn, key) is Ok
GetNoteByKey(t, key) == key \in ndb

\* is_muted(&note, root_note_id_from_selected_id(..))
IsMuted(key) == key \in mutedKeys

\* a plausible slip: a muted row treated like a row that failed to resolve
RowsConsumedMutedZero(resolved, muted) ==
    IF resolved /\ ~muted THEN 1 ELSE 0

\* the callback's return value
RowsConsumed(resolved, muted) == IF ~resolved THEN 0 ELSE 1

\* a plausible slip: the first action of the frame is kept
StoreActionFirstWins(cur, resp) ==
    IF cur.some THEN cur ELSE resp

\* if let Some(note_action) = resp.action { action = Some(note_action) }
StoreAction(cur, resp) == IF resp.some THEN resp ELSE cur

\* ------------------------------------------------------------ list renderer
\* ui_custom_layout: the contiguous ranges [first, limit) of display
\* positions that can intersect the viewport of a list of n rows
VisibleRanges(n) == {r \in (0..n) \X (0..n) : r[1] <= r[2]}

\* ui_custom_layout: the cursor advances by rows_consumed after each call
Advance(cur, rows_consumed) == cur + rows_consumed

\* ------------------------------------------------------------ transactions
\* Transaction::new(ndb): the id of the transaction it creates
NewTxn == 1

\* a plausible slip: the transaction outlives the frame
DropTxnLeak(open, t) == open

\* drop of `txn` at the end of the ScrollArea closure
DropTxn(open, t) == open \ {t}

\* ------------------------------------------------------------------ state
\* the per-frame bookkeeping at the start of a timeline_ui call
FrameReset ==
    /\ warned' = {}
    /\ txn' = 0
    /\ txnOpened' = 0
    /\ txnErr' = FALSE
    /\ rowTxns' = {}
    /\ len' = 0
    /\ first' = 0
    /\ limit' = 0
    /\ cursor' = 0
    /\ calls' = 0
    /\ visited' = {}
    /\ inds' = {}
    /\ consumed' = 0
    /\ painted' = {}
    /\ hlines' = {}
    /\ yielded' = {}
    /\ action' = None
    /\ ret' = None

\* the keys of a feed of n notes
FeedKeys(n) == {NoteKey(i) : i \in 0..(n - 1)}

InitWith(k, n, sel, present, muted) ==
    /\ columns = [t \in KnownIds |->
                    [selected_view |-> sel[t], views |-> MkViews(k, n)]]
    /\ ndb = present
    /\ mutedKeys = muted
    /\ pc = "ready"
    /\ panicAt = ""
    /\ timeline_id = 0
    /\ reversed = FALSE
    /\ click = None
    /\ tabsShown = FALSE
    /\ errors = 0
    /\ warned = {}
    /\ txn = 0
    /\ openTxns = {}
    /\ txnOpened = 0
    /\ txnErr = FALSE
    /\ rowTxns = {}
    /\ len = 0
    /\ first = 0
    /\ limit = 0
    /\ cursor = 0
    /\ calls = 0
    /\ visited = {}
    /\ inds = {}
    /\ consumed = 0
    /\ painted = {}
    /\ hlines = {}
    /\ yielded = {}
    /\ action = None
    /\ ret = None

\* the timelines of the application, over one feed: each has at least one
\* view and its selected_view in range
Init ==
    \E k \in 1..MaxTabs, n \in 0..MaxNotes :
        \E sel \in [KnownIds -> 0..(k - 1)] :
            \E present \in SUBSET FeedKeys(n) :
                \E muted \in SUBSET present :
                    InitWith(k, n, sel, present, muted)

\* tabs_ui is public and takes any slice and any index: also no views at all
InitAnyTabs ==
    \E k \in 0..MaxTabs, n \in 0..MaxNotes :
        \E sel \in [KnownIds -> 0..MaxTabs] :
            \E present \in SUBSET FeedKeys(n) :
                \E muted \in SUBSET present :
                    InitWith(k, n, sel, present, muted)

\* ---------------------------------------------------------------- actions
\* timeline_ui, up to the ScrollArea: find the timeline, run tabs_ui
TimelineUi(id, rev, clk) ==
    /\ pc \in {"ready", "returned"}
    /\ timeline_id' = id
    /\ reversed' = rev
    /\ FrameReset
    /\ UNCHANGED <<ndb, mutedKeys, openTxns>>
    /\ LET found == find_timeline_mut(columns, id)
       IN  IF ~found.some
           THEN /\ errors' = 1
                /\ tabsShown' = FALSE
                /\ click' = None
                /\ pc' = "returned"
                /\ UNCHANGED <<columns, panicAt>>
           ELSE LET timeline == columns[found.val]
                    r == tabs_ui(timeline.selected_view, timeline.views, clk)
                IN  /\ clk \in Clicks(Len(timeline.views))
                    /\ click' = clk
                    /\ errors' = 0
                    /\ tabsShown' = TRUE
                    /\ IF r.panic
                       THEN /\ pc' = "panic"
                            /\ panicAt' = "tabs_ui"
                            /\ UNCHANGED columns
                       ELSE /\ columns' = [columns EXCEPT
                                    ![found.val].selected_view = r.ret]
                            /\ pc' = "scroll"
                            /\ UNCHANGED panicAt

\* timeline_ui, the ScrollArea closure up to the row loop: find the timeline
\* again, create the transaction, build the TimelineTabView and enter show
ScrollAreaShow(txnOk, range) ==
    /\ pc = "scroll"
    /\ UNCHANGED <<columns, ndb, mutedKeys, timeline_id, reversed, click,
                   tabsShown, warned, rowTxns, calls, visited, inds, consumed,
                   painted, hlines, yielded>>
    /\ LET found == find_timeline_mut(columns, timeline_id)
       IN  IF ~found.some
           THEN /\ errors' = errors + 1
                /\ ret' = None
                /\ pc' = "returned"
                /\ UNCHANGED <<panicAt, txn, openTxns, txnOpened, txnErr, len,
                               first, limit, cursor, action>>
           ELSE IF ~txnOk
           THEN \* Transaction::new(ndb).expect("failed to create txn")
                /\ txnErr' = TRUE
                /\ pc' = "panic"
                /\ panicAt' = "txn"
                /\ UNCHANGED <<errors, ret, txn, openTxns, txnOpened, len,
                               first, limit, cursor, action>>
           ELSE LET notes == CurrentView(columns[found.val]).notes
                IN  /\ range \in VisibleRanges(Len(notes))
                    /\ txn' = NewTxn
                    /\ openTxns' = openTxns \cup {NewTxn}
                    /\ txnOpened' = txnOpened + 1
                    /\ action' = None
                    /\ len' = Len(notes)
                    /\ first' = range[1]
                    /\ limit' = range[2]
                    /\ cursor' = range[1]
                    /\ pc' = "list"
                    /\ UNCHANGED <<errors, ret, panicAt, txnErr>>

\* one invocation of the row callback by the list renderer, at `cursor`;
\* `clicked`: the NoteView of this row returns an action
RowCallback(clicked) ==
    /\ pc = "list"
    /\ cursor < limit
    /\ UNCHANGED <<columns, ndb, mutedKeys, timeline_id, reversed, click,
                   tabsShown, errors, txn, txnOpened, txnErr, len, first,
                   limit, ret>>
    /\ calls' = (calls + 1) % CallsModulus
    /\ visited' = visited \cup {cursor}
    /\ LET ind == Ind(reversed, len, cursor)
       IN  IF ~InBounds(CurrentNotes, ind)
           THEN \* self.tab.notes[ind] out of bounds; unwinding drops txn
                /\ pc' = "panic"
                /\ panicAt' = "notes"
                /\ openTxns' = DropTxn(openTxns, txn)
                /\ UNCHANGED <<warned, rowTxns, cursor, inds, consumed,
                               painted, hlines, yielded, action>>
           ELSE LET note_key == At(CurrentNotes, ind).key
                    resolved == GetNoteByKey(txn, note_key)
                    muted == resolved /\ IsMuted(note_key)
                    count == RowsConsumed(resolved, muted)
                    resp == IF clicked THEN Some(note_key) ELSE None
                IN  /\ inds' = inds \cup {ind}
                    /\ rowTxns' = rowTxns \cup {txn}
                    /\ warned' = IF resolved THEN warned
                                 ELSE warned \cup {note_key}
                    /\ IF resolved /\ ~muted
                       THEN /\ painted' = painted \cup {ind}
                            /\ hlines' = hlines \cup {ind}
                            /\ action' = StoreAction(action, resp)
                            /\ yielded' = IF resp.some
                                          THEN yielded \cup {cursor}
                                          ELSE yielded
                       ELSE /\ clicked = FALSE
                            /\ UNCHANGED <<painted, hlines, action, yielded>>
                    /\ cursor' = Advance(cursor, count)
                    /\ consumed' = consumed + count
                    /\ UNCHANGED <<pc, panicAt, openTxns>>

\* the row loop is over: show returns `action`, the closure drops txn and
\* timeline_ui returns the closure's value
ShowReturn ==
    /\ pc = "list"
    /\ cursor >= limit
    /\ ret' = action
    /\ openTxns' = DropTxn(openTxns, txn)
    /\ pc' = "returned"
    /\ UNCHANGED <<columns, ndb, mutedKeys, panicAt, timeline_id, reversed,
                   click, tabsShown, errors, warned, txn, txnOpened, txnErr,
                   rowTxns, len, first, limit, cursor, calls, visited, inds,
                   consumed, painted, hlines, yielded, action>>

Next ==
    \/ \E id \in RequestIds, rev \in BOOLEAN,
          clk \in Clicks(MaxTabs) : TimelineUi(id, rev, clk)
    \/ \E txnOk \in BOOLEAN,
          range \in VisibleRanges(MaxNotes) : ScrollAreaShow(txnOk, range)
    \/ \E clicked \in BOOLEAN : RowCallback(clicked)
    \/ ShowReturn

Spec == Init /\ [][Next]_vars

\* every timeline and tab list tabs_ui accepts
SpecAnyTabs == InitAnyTabs /\ [][Next]_vars

\* the frame runs synchronously to its end: the row loop keeps stepping
FairSpec ==
    /\ Init
    /\ [][Next]_vars
    /\ WF_vars(\E clicked \in BOOLEAN : RowCallback(clicked))
    /\ WF_vars(ShowReturn)

\* ----------------------------------------------------------------- claims
\* a render pass of show is running or has returned
InPass == pc \in {"list", "returned"} /\ txnOpened = 1

\* the key of the note shown at display position p in the running pass
KeyAtPos(p) == At(CurrentNotes, Ind(reversed, len, p)).key

\* every note of the view on show resolves
AllResolve == \A i \in 1..Len(CurrentNotes) : CurrentNotes[i].key \in ndb

\* C1: when Transaction::new fails in a frame, timeline_ui ends the frame
\* without a panic: it returns None, paints no row and logs one error.
C1_TxnFailureAbortsFrameQuietly ==
    txnErr => /\ pc = "returned"
              /\ ret = None
              /\ painted = {}
              /\ errors = 1

\* C2: tabs_ui over an empty tab list does not fail and returns 0, whatever
\* the selected index handed in.
C2_ZeroTabsReturnsZero ==
    \A t \in DOMAIN columns :
        (pc # "ready" /\ timeline_id = t /\ Len(columns[t].views) = 0)
            => (pc # "panic" /\ columns[t].selected_view = 0)

\* C3: with k >= 1 tabs and a selected index in [0, k), tabs_ui returns an
\* index in [0, k), the clicked segment when one was clicked; so every
\* timeline's stored selected_view stays below its number of views.
C3_SelectedViewInRange ==
    /\ \A t \in DOMAIN columns :
          /\ columns[t].selected_view >= 0
          /\ columns[t].selected_view < Len(columns[t].views)
    /\ (pc = "scroll" /\ click.some)
          => columns[timeline_id].selected_view = click.val

C3_Witness ==
    /\ pc = "scroll"
    /\ click.some
    /\ Len(columns[timeline_id].views) >= 2
    /\ click.val = Len(columns[timeline_id].views) - 1
    /\ columns[timeline_id].selected_view = click.val

\* C4: for the item count N of a pass and either direction, display position
\* -> logical index maps [0, N) one-to-one onto [0, N) without underflow;
\* with N = 3 reversed, position 0 maps to 2 and position 2 to 0.
C4_IndexMapBijection ==
    InPass =>
        LET D == 0..(len - 1)
            f(s) == Ind(reversed, len, s)
        IN  /\ \A s \in D : ~Underflows(len, s) /\ f(s) \in D
            /\ \A s1, s2 \in D : f(s1) = f(s2) => s1 = s2
            /\ \A i \in D : \E s \in D : f(s) = i
            /\ (reversed /\ len = 3) => (f(0) = 2 /\ f(2) = 0)
            /\ inds = {f(s) : s \in visited}
            /\ Cardinality(inds) = Cardinality(visited)

C4_Witness ==
    /\ pc = "returned"
    /\ reversed
    /\ len = 3
    /\ visited = {0, 1, 2}
    /\ inds = {0, 1, 2}
    /\ painted = {0, 1, 2}

\* C5: when every item resolves, a muted row paints nothing (no content, no
\* separator, no action) and still consumes one row: rows consumed equal the
\* positions visited, and a full traversal consumes N rows and paints exactly
\* the unmuted logical indices.
C5_MutedRowsKeepAlignment ==
    (InPass /\ AllResolve) =>
        LET Unmuted(S) == {i \in S : ~IsMuted(At(CurrentNotes, i).key)}
        IN  /\ consumed = Cardinality(visited)
            /\ painted = Unmuted(inds)
            /\ hlines = painted
            /\ action.some => ~IsMuted(action.val)
            /\ (pc = "returned" /\ first = 0 /\ limit = len)
                  => /\ consumed = len
                     /\ painted = Unmuted(0..(len - 1))

C5_Witness ==
    /\ pc = "returned"
    /\ txnOpened = 1
    /\ ~reversed
    /\ len = 3
    /\ AllResolve
    /\ mutedKeys = {At(CurrentNotes, 1).key}
    /\ painted = {0, 2}
    /\ hlines = {0, 2}
    /\ consumed = 3

\* C6: show returns the action of the last row (highest display position)
\* whose NoteView yielded one, None when no row yielded one; a later row
\* without an action does not clear it.
C6_LastActionWins ==
    /\ InPass =>
          /\ action = IF yielded = {} THEN None
                      ELSE Some(KeyAtPos(SetMax(yielded)))
          /\ pc = "returned" => ret = action
    /\ (pc = "returned" /\ txnOpened = 0) => ret = None

C6_Witness ==
    /\ pc = "returned"
    /\ txnOpened = 1
    /\ Cardinality(yielded) >= 2
    /\ ret = Some(KeyAtPos(SetMax(yielded)))
    /\ \E p \in visited :
          /\ p > SetMax(yielded)
          /\ Ind(reversed, len, p) \in painted

\* C7: after the item at a visible display position p failed to resolve, the
\* pass still invokes the callback for the next visible position.
C7_FailedRowDoesNotAbortList ==
    \A p \in 0..MaxNotes :
        (/\ pc = "list"
         /\ p \in visited
         /\ p + 1 < limit
         /\ ~GetNoteByKey(txn, KeyAtPos(p)))
            ~> (p + 1 \in visited)

\* C8: a frame that asks for a timeline the columns do not hold logs one
\* error and returns None at once: no tab selector, no transaction, no row,
\* no change to any timeline.
C8_MissingTimelineRendersNothing ==
    [][(pc \in {"ready", "returned"} /\ timeline_id' \notin DOMAIN columns)
          => /\ pc' = "returned"
             /\ panicAt' = ""
             /\ errors' = 1
             /\ ~tabsShown'
             /\ txnOpened' = 0
             /\ openTxns' = {}
             /\ visited' = {}
             /\ painted' = {}
             /\ hlines' = {}
             /\ ret' = None
             /\ columns' = columns]_vars

C8_Witness ==
    /\ pc = "returned"
    /\ timeline_id \notin DOMAIN columns
    /\ errors = 1
    /\ ~tabsShown
    /\ ret = None
    /\ \E t \in DOMAIN columns : columns[t].selected_view > 0

\* C9: a frame creates at most one transaction, before the first row
\* callback; every row is resolved against it; it is open during the row
\* loop only and dropped when timeline_ui returns on any path.
C9_OneSnapshotPerPass ==
    /\ txnOpened <= 1
    /\ Cardinality(openTxns) <= 1
    /\ visited # {} => txnOpened = 1
    /\ rowTxns # {} => (txn # 0 /\ rowTxns = {txn})
    /\ pc = "list" => (txn # 0 /\ openTxns = {txn})
    /\ pc # "list" => openTxns = {}

C9_Witness ==
    /\ pc = "returned"
    /\ txnOpened = 1
    /\ Cardinality(visited) >= 2
    /\ rowTxns = {txn}
    /\ openTxns = {}

====
